---- MODULE Spec2Model ----
(***************************************************************************)
(* Model of pyramid_autodoc/__init__.py: the docstring trimmer (trim), the *)
(* markup fragment renderer (rst2node) and the RouteDirective (get_routes, *)
(* make_custom_rst, make_httpdomain_rst, run).                             *)
(*                                                                         *)
(* A text is a sequence of one-character strings.  An absent text (None)   *)
(* is the value None below.                                                *)
(***************************************************************************)
EXTENDS Integers, Sequences, FiniteSets, TLC

\* ------------------------------------------------------------------ bounds
\* longest input text handed to trim in SpecTrim
MaxLen == 5
\* how many times trim is applied in a row in SpecTrim
MaxApply == 2
\* longest text handed to rst2node in SpecFragment
MaxData == 4
\* most routes registered in the target application's mapper
MaxRoutes == 2
\* most occurrences of the directive in one document build
MaxInvocations == 2

\* --------------------------------------------------------------- characters
NL == "\n"
TAB == "\t"
SP == " "
\* the value of an absent docstring / option
None == <<"None">>

\* sys.maxsize (of a 32-bit build, the widest integer TLC handles)
maxsize == 2147483647
\* default tab size of str.expandtabs()
tabsize == 8

VARIABLES
  docstring,   \* SpecTrim: the text given to trim
  res,         \* SpecTrim: the result of the latest call of trim
  prev,        \* SpecTrim: the result of the call before the latest
  applied,     \* SpecTrim: number of calls of trim so far
  doc_name,    \* SpecFragment: the label given to rst2node
  data,        \* SpecFragment: the text given to rst2node
  frag,        \* SpecFragment: what rst2node returned
  frag_done,   \* SpecFragment: rst2node has returned
  bootstrap_ok,  \* Spec: bootstrap(ini_file) succeeds
  ext_ok,        \* Spec: mapper.get_routes(include_static=True) succeeds
  base_ok,       \* Spec: mapper.get_routes() succeeds
  app_routes,    \* Spec: the routes registered in the application's mapper
  options,       \* Spec: self.options, the directive's option dictionary
  pc,            \* Spec: position of the running directive inside run
  calls,         \* Spec: the calls run has made so far, in order
  routes,        \* Spec: the routes the mapper listed
  mapped_routes, \* Spec: what get_routes returned
  out,           \* Spec: the nodes run returned
  error,         \* Spec: the exception run raised ("" if none)
  serialno,      \* Spec: the build environment's 'route' serial counter
  built_ids,     \* Spec: ids of all sections built during the document build
  invocations,   \* Spec: directive occurrences started so far
  parsed         \* Spec: the texts handed to nested_parse_with_titles

trimVars == <<docstring, res, prev, applied>>
fragVars == <<doc_name, data, frag, frag_done>>
appVars == <<bootstrap_ok, ext_ok, base_ok, app_routes, options>>
runVars == <<pc, calls, routes, mapped_routes, out, error, parsed>>
envVars == <<serialno, built_ids, invocations>>
vars == <<trimVars, fragVars, appVars, runVars, envVars>>

TrimIdle == docstring = None /\ res = None /\ prev = None /\ applied = 0
FragIdle == doc_name = None /\ data = None /\ frag = None /\ frag_done = FALSE
DirIdle ==
  /\ bootstrap_ok = FALSE /\ ext_ok = FALSE /\ base_ok = FALSE
  /\ app_routes = <<>> /\ options = <<>>
  /\ pc = "idle" /\ calls = <<>> /\ routes = <<>> /\ mapped_routes = <<>>
  /\ out = <<>> /\ error = "" /\ parsed = <<>>
  /\ serialno = 0 /\ built_ids = <<>> /\ invocations = 0

\* ------------------------------------------------------- string primitives
IsSpace(c) == c \in {SP, TAB}

Spaces(n) == [k \in 1..n |-> SP]

\* str.expandtabs(): a tab advances to the next multiple of tabsize, the
\* column restarts after a newline
RECURSIVE expandtabsFrom(_, _, _)
expandtabsFrom(s, i, col) ==
  IF i > Len(s) THEN <<>>
  ELSE IF s[i] = TAB
       THEN LET incr == tabsize - (col % tabsize)
            IN  Spaces(incr) \o expandtabsFrom(s, i + 1, col + incr)
  ELSE IF s[i] = NL
       THEN <<NL>> \o expandtabsFrom(s, i + 1, 0)
  ELSE <<s[i]>> \o expandtabsFrom(s, i + 1, col + 1)

expandtabs(s) == expandtabsFrom(s, 1, 0)

\* str.splitlines(): the line ends are dropped, and a final line end does
\* not open an empty last line
RECURSIVE splitlinesFrom(_, _, _)
splitlinesFrom(s, i, cur) ==
  IF i > Len(s) THEN (IF cur = <<>> THEN <<>> ELSE <<cur>>)
  ELSE IF s[i] = NL THEN <<cur>> \o splitlinesFrom(s, i + 1, <<>>)
  ELSE splitlinesFrom(s, i + 1, Append(cur, s[i]))

splitlines(s) == splitlinesFrom(s, 1, <<>>)

RECURSIVE lstrip(_)
lstrip(s) == IF s # <<>> /\ IsSpace(s[1]) THEN lstrip(Tail(s)) ELSE s

rstrip_keep(s) == s

RECURSIVE rstrip(_)
rstrip(s) ==
  IF s # <<>> /\ IsSpace(s[Len(s)]) THEN rstrip(SubSeq(s, 1, Len(s) - 1)) ELSE s

strip(s) == lstrip(rstrip(s))

\* line[n:]
SliceFrom(line, n) == IF n >= Len(line) THEN <<>> ELSE SubSeq(line, n + 1, Len(line))

Min(a, b) == IF a < b THEN a ELSE b

\* '\n'.join(lines)
RECURSIVE join(_)
join(lines) ==
  IF lines = <<>> THEN <<>>
  ELSE IF Len(lines) = 1 THEN lines[1]
  ELSE lines[1] \o <<NL>> \o join(Tail(lines))

\* ------------------------------------------------------------------- trim
\* lines 162-166: minimum indentation of the non-blank lines
RECURSIVE MinIndent(_)
MinIndent(lines) ==
  IF lines = <<>> THEN maxsize
  ELSE LET line == lines[1]
           stripped == lstrip(line)
           rest == MinIndent(Tail(lines))
       IN  IF stripped # <<>> THEN Min(Len(line) - Len(stripped), rest) ELSE rest

PopTrailingBlank_keep(trimmed) == trimmed

\* lines 173-174: while trimmed and not trimmed[-1]: trimmed.pop()
RECURSIVE PopTrailingBlank(_)
PopTrailingBlank(trimmed) ==
  IF trimmed # <<>> /\ trimmed[Len(trimmed)] = <<>>
  THEN PopTrailingBlank(SubSeq(trimmed, 1, Len(trimmed) - 1))
  ELSE trimmed

\* lines 175-176: while trimmed and not trimmed[0]: trimmed.pop(0)
RECURSIVE PopLeadingBlank(_)
PopLeadingBlank(trimmed) ==
  IF trimmed # <<>> /\ trimmed[1] = <<>>
  THEN PopLeadingBlank(Tail(trimmed))
  ELSE trimmed

trim(d) ==
  IF d = None \/ d = <<>> THEN <<>>
  ELSE LET lines == splitlines(expandtabs(d))
           indent == MinIndent(Tail(lines))
           trimmed == <<strip(lines[1])>> \o
                      (IF indent < maxsize
                       THEN [k \in 1..(Len(lines) - 1) |->
                               rstrip(SliceFrom(lines[k + 1], indent))]
                       ELSE <<>>)
       IN  join(PopLeadingBlank(PopTrailingBlank(trimmed)))

\* ------------------------------------------------------- SpecTrim: inputs
TrimChars == {SP, TAB, NL, "a"}

Texts(chars, n) == UNION {[1..k -> chars] : k \in 0..n}

InitTrim ==
  /\ docstring \in Texts(TrimChars, MaxLen) \cup {None}
  /\ res = None
  /\ prev = None
  /\ applied = 0
  /\ FragIdle
  /\ DirIdle

\* one call of trim: the first on the input, the later ones on the result
Trim ==
  /\ applied < MaxApply
  /\ res' = trim(IF applied = 0 THEN docstring ELSE res)
  /\ prev' = res
  /\ applied' = applied + 1
  /\ UNCHANGED docstring
  /\ UNCHANGED <<fragVars, appVars, runVars, envVars>>

NextTrim == Trim

SpecTrim == InitTrim /\ [][NextTrim]_vars

\* --------------------------------------------------------------- rst2node
\* a document node; source is the diagnostic tag of the parse context
Node(tag, text, source, children) ==
  [tag |-> tag, text |-> text, source |-> source, children |-> children]

\* what "return" without a value gives
NoNode == Node("None", <<>>, None, <<>>)

\* the blocks of a plain text: runs of non-blank lines
RECURSIVE Blocks(_, _)
Blocks(lines, cur) ==
  LET flush == IF cur = <<>> THEN <<>> ELSE <<cur>>
  IN  IF lines = <<>> THEN flush
      ELSE IF strip(lines[1]) = <<>> THEN flush \o Blocks(Tail(lines), <<>>)
      ELSE Blocks(Tail(lines), Append(cur, lines[1]))

\* parser.parse(data, document): the top-level nodes of a text without
\* markup, one paragraph per block, each tagged with the document's source
Parse(text, source) ==
  LET blocks == Blocks(splitlines(text), <<>>)
  IN  [k \in 1..Len(blocks) |-> Node("paragraph", join(blocks[k]), source, <<>>)]

\* docutils.utils.new_document('<%s>' % doc_name)
new_document(name) == [source |-> <<"<">> \o name \o <<">">>]

rst2node_first(name, text) ==
  IF text = None \/ text = <<>> THEN NoNode
  ELSE LET document == new_document(name)
           children == Parse(text, document.source)
       IN  IF Len(children) >= 1
           THEN children[1]
           ELSE Node("paragraph", <<>>, None, children)

rst2node(name, text) ==
  IF text = None \/ text = <<>> THEN NoNode
  ELSE LET document == new_document(name)
           children == Parse(text, document.source)
       IN  IF Len(children) = 1
           THEN children[1]
           ELSE Node("paragraph", <<>>, None, children)

\* --------------------------------------------------- SpecFragment: inputs
FragChars == {"a", "b", NL}
Labels == {<<"v">>, <<"w">>}

InitFragment ==
  /\ doc_name \in Labels
  /\ data \in Texts(FragChars, MaxData) \cup {None}
  /\ frag = None
  /\ frag_done = FALSE
  /\ TrimIdle
  /\ DirIdle

Rst2Node ==
  /\ ~frag_done
  /\ frag' = rst2node(doc_name, data)
  /\ frag_done' = TRUE
  /\ UNCHANGED <<doc_name, data>>
  /\ UNCHANGED <<trimVars, appVars, runVars, envVars>>

NextFragment == Rst2Node

SpecFragment == InitFragment /\ [][NextFragment]_vars

\* ------------------------------------------------- the target application
\* a view of a route: handler identifier, request method, raw docstring
View(view, method, docs) == [view |-> view, method |-> method, docs |-> docs]

\* a route of the mapper, with the views registered for it
Route(name, pattern, static, views) ==
  [name |-> name, pattern |-> pattern, static |-> static, views |-> views]

RouteSet ==
  { Route(<<"h">>, <<"/">>, FALSE,
          << View(<<"v">>, <<"G", "E", "T">>, <<"a">>),
             View(<<"w">>, <<"P", "O", "S", "T">>,
                  <<NL, SP, "a", NL, NL, SP, SP, "b", NL>>) >>),
    Route(<<"i">>, <<"/", "i">>, FALSE,
          << View(<<"v">>, <<"G", "E", "T">>, None) >>),
    Route(<<"s">>, <<"/", "s">>, TRUE,
          << View(<<"w">>, <<"*">>, <<TAB, "b", SP>>) >>) }

\* the mapper keeps one route per name
RouteLists ==
  { l \in UNION {[1..k -> RouteSet] : k \in 0..MaxRoutes} :
      \A i, j \in 1..Len(l) : i # j => l[i].name # l[j].name }

\* mapper.get_routes(include_static): the static routes are listed only
\* when include_static is set
mapper_get_routes(all_routes, include_static) ==
  SelectSeq(all_routes, LAMBDA r : include_static \/ ~r.static)

\* get_route_data(route, registry): one (name, pattern, view, method, docs)
\* tuple per view of the route, all with the route's name and pattern
get_route_data(route) ==
  [k \in 1..Len(route.views) |->
     <<route.name, route.pattern, route.views[k].view,
       route.views[k].method, route.views[k].docs>>]

\* ------------------------------------------------------------ the options
FormatValues == {"custom", "httpdomain", "html"}
UndocValues == {<<>>, <<"v">>, <<SP, "v", SP, SP, "w">>, <<"v", "w">>}

\* the option dictionaries: each option is present or not
OptionDicts ==
  UNION { { [k \in K |-> IF k = "format" THEN f ELSE u] :
              f \in FormatValues, u \in UndocValues } :
          K \in SUBSET {"format", "undoc-endpoints"} }

\* dict.get(key, default)
Get(dict, key, default) == IF key \in DOMAIN dict THEN dict[key] ELSE default

\* str.split(): the maximal runs of non-whitespace characters
RECURSIVE splitFrom(_, _, _)
splitFrom(s, i, cur) ==
  LET flush == IF cur = <<>> THEN <<>> ELSE <<cur>>
  IN  IF i > Len(s) THEN flush
      ELSE IF s[i] \in {SP, TAB, NL} THEN flush \o splitFrom(s, i + 1, <<>>)
      ELSE splitFrom(s, i + 1, Append(cur, s[i]))

split(s) == splitFrom(s, 1, <<>>)

\* lines 134-137: the undocumented views, None or the list of the words of
\* the option
Undocumented(opts) ==
  IF "undoc-endpoints" \in DOMAIN opts
  THEN [is_none |-> FALSE, items |-> split(opts["undoc-endpoints"])]
  ELSE [is_none |-> TRUE, items |-> <<>>]

\* line 133
Format(opts) == Get(opts, "format", "custom")

InList(x, list) == \E k \in 1..Len(list) : list[k] = x

\* ------------------------------------------------------------- get_routes
Record(name, pattern, view, method, docs) ==
  [name |-> name, pattern |-> pattern, view |-> view, method |-> method,
   docs |-> docs]

Skip_never(view, undocumented) == FALSE

\* line 57
Skip(view, undocumented) ==
  ~undocumented.is_none /\ InList(view, undocumented.items)

\* lines 56-66: the records of one route
RECURSIVE route_records(_, _)
route_records(route_data, undocumented) ==
  IF route_data = <<>> THEN <<>>
  ELSE LET t == route_data[1]
       IN  (IF Skip(t[3], undocumented)
            THEN <<>>
            ELSE << Record(t[1], t[2], t[3], t[4], trim(t[5])) >>)
           \o route_records(Tail(route_data), undocumented)

\* lines 52-68
RECURSIVE map_routes(_, _)
map_routes(listed, undocumented) ==
  IF listed = <<>> THEN <<>>
  ELSE route_records(get_route_data(listed[1]), undocumented)
       \o map_routes(Tail(listed), undocumented)

\* -------------------------------------------------------- make_custom_rst
Digits == <<"0", "1", "2", "3", "4", "5", "6", "7", "8", "9">>

\* "%d" % n
RECURSIVE Decimal(_)
Decimal(n) ==
  IF n < 10 THEN <<Digits[n + 1]>>
  ELSE Decimal(n \div 10) \o <<Digits[(n % 10) + 1]>>

\* line 94: "route-%d" % serial
route_id(serial) == <<"r", "o", "u", "t", "e", "-">> \o Decimal(serial)

\* lines 108-114: a row of the table, one entry per column text
get_row(label, value) == [label |-> label, value |-> value]

\* lines 100-120: the attribute table of a record
real_table(rec) ==
  [tag |-> "table", cols |-> 2, colwidths |-> <<10, 90>>,
   rows |-> << get_row("Module", rec.view),
               get_row("Request Method", rec.method),
               get_row("Route Name", rec.name) >>]

section_fragment_none(rec) == <<>>

\* lines 122-125: the parsed description, when there is one
section_fragment(rec) ==
  IF rec.docs # <<>> THEN << rst2node(rec.view, rec.docs) >> ELSE <<>>

\* lines 95-125: the section of a record
route_node(id, rec) ==
  [tag |-> "section", ids |-> <<id>>,
   children |-> << [tag |-> "title", text |-> rec.pattern], real_table(rec) >>
                \o section_fragment(rec)]

make_custom_rst_one_serial(mapped, serial) ==
  [k \in 1..Len(mapped) |-> route_node(route_id(serial), mapped[k])]

\* lines 89-129; env.new_serialno('route') gives the counter's value and
\* advances it, so the k-th record gets serial + k - 1
make_custom_rst(mapped, serial) ==
  [k \in 1..Len(mapped) |-> route_node(route_id(serial + k - 1), mapped[k])]

\* ---------------------------------------------------- make_httpdomain_rst
LowerChar(c) ==
  CASE c = "G" -> "g" [] c = "E" -> "e" [] c = "T" -> "t"
    [] c = "P" -> "p" [] c = "O" -> "o" [] c = "S" -> "s"
    [] OTHER -> c

lower(s) == [k \in 1..Len(s) |-> LowerChar(s[k])]

\* sphinxcontrib.autohttp.common.http_directive(method, path, content): a
\* blank line, the ".. http:<method>:: <path>" line, a blank line, the
\* content lines indented by three spaces, a blank line
http_directive(method, path, content) ==
  LET m == strip(lower(method))
      body == splitlines(content)
  IN  << <<>>, <<".. http:">> \o m \o <<":: ">> \o path, <<>> >>
      \o [k \in 1..Len(body) |-> <<SP, SP, SP>> \o body[k]]
      \o << <<>> >>

IsDirectiveLine(line) == line # <<>> /\ line[1] = ".. http:"

CloseBlock(open) ==
  IF Len(open) = 0 THEN <<>>
  ELSE << [open[1] EXCEPT !.content = PopLeadingBlank(PopTrailingBlank(@))] >>

\* nested_parse_with_titles(state, result, node): the nodes parsed from the
\* lines of result, one per directive block, its content lines dedented
RECURSIVE nested_parse(_, _)
nested_parse(lines, open) ==
  IF lines = <<>> THEN CloseBlock(open)
  ELSE IF IsDirectiveLine(lines[1])
       THEN CloseBlock(open)
            \o nested_parse(Tail(lines),
                 << [tag |-> "http", sig |-> Tail(lines[1]), content |-> <<>>] >>)
  ELSE IF Len(open) = 0 THEN nested_parse(Tail(lines), open)
  ELSE nested_parse(Tail(lines),
         << [open[1] EXCEPT
               !.content = Append(@, rstrip(SliceFrom(lines[1], 3)))] >>)

\* lines 75-85: result collects the lines of the records seen so far, and
\* each pass of the loop parses result and adds the nodes to node
RECURSIVE httpdomain_loop(_, _, _, _, _)
httpdomain_loop(mapped, i, result, children, handed) ==
  IF i > Len(mapped) THEN [children |-> children, parsed |-> handed]
  ELSE LET directives == http_directive(mapped[i].method, mapped[i].pattern,
                                        mapped[i].docs)
           result2 == result \o directives
       IN  httpdomain_loop(mapped, i + 1, result2,
                           children \o nested_parse(result2, <<>>),
                           Append(handed, result2))

\* lines 70-87
make_httpdomain_rst(mapped) == httpdomain_loop(mapped, 1, <<>>, <<>>, <<>>)

\* -------------------------------------------------------------------- run
\* lines 141-146: the branch run takes for a format
run_branch_default_custom(format) ==
  IF format = "httpdomain" THEN "httpdomain" ELSE "custom"

run_branch(format) ==
  IF format = "custom" THEN "custom"
  ELSE IF format = "httpdomain" THEN "httpdomain"
  ELSE "raise"

AfterExtended_surface(ok) == IF ok THEN "extract" ELSE "raised"

\* lines 47-50: where run goes after the extended listing
AfterExtended(ok) == IF ok THEN "extract" ELSE "fallback"

RaisePoint_early == "run"

\* line 146 is reached after get_routes has returned (line 139)
RaisePoint == "dispatch"

InitRun ==
  /\ pc = "run" /\ calls = <<>> /\ routes = <<>> /\ mapped_routes = <<>>
  /\ out = <<>> /\ error = "" /\ parsed = <<>>

Init ==
  /\ bootstrap_ok \in BOOLEAN /\ ext_ok \in BOOLEAN /\ base_ok \in BOOLEAN
  /\ app_routes \in RouteLists
  /\ options \in OptionDicts
  /\ InitRun
  /\ serialno = 0 /\ built_ids = <<>> /\ invocations = 1
  /\ TrimIdle /\ FragIdle

Idle == UNCHANGED <<trimVars, fragVars>>

\* lines 42-45: bootstrap(ini_file); a failure leaves run
Bootstrap ==
  /\ pc = "run"
  /\ calls' = Append(calls, "bootstrap")
  /\ IF bootstrap_ok
     THEN pc' = "listing" /\ UNCHANGED error
     ELSE pc' = "raised" /\ error' = "bootstrap"
  /\ UNCHANGED <<routes, mapped_routes, out, parsed>>
  /\ UNCHANGED <<appVars, envVars>> /\ Idle

\* line 48: mapper.get_routes(include_static=True) inside the try
ListExtended ==
  /\ pc = "listing"
  /\ calls' = Append(calls, "get_routes(include_static=True)")
  /\ pc' = AfterExtended(ext_ok)
  /\ routes' = IF ext_ok THEN mapper_get_routes(app_routes, TRUE) ELSE routes
  /\ error' = IF pc' = "raised" THEN "get_routes" ELSE error
  /\ UNCHANGED <<mapped_routes, out, parsed>>
  /\ UNCHANGED <<appVars, envVars>> /\ Idle

\* line 50: mapper.get_routes() in the except branch
ListBase ==
  /\ pc = "fallback"
  /\ calls' = Append(calls, "get_routes()")
  /\ IF base_ok
     THEN /\ routes' = mapper_get_routes(app_routes, FALSE)
          /\ pc' = "extract"
          /\ UNCHANGED error
     ELSE /\ pc' = "raised"
          /\ error' = "get_routes"
          /\ UNCHANGED routes
  /\ UNCHANGED <<mapped_routes, out, parsed>>
  /\ UNCHANGED <<appVars, envVars>> /\ Idle

\* lines 52-68: the records of the listed routes
Extract ==
  /\ pc = "extract"
  /\ mapped_routes' = map_routes(routes, Undocumented(options))
  /\ pc' = "dispatch"
  /\ UNCHANGED <<calls, routes, out, error, parsed>>
  /\ UNCHANGED <<appVars, envVars>> /\ Idle

\* lines 141-142
MakeCustom ==
  /\ pc = "dispatch"
  /\ run_branch(Format(options)) = "custom"
  /\ calls' = Append(calls, "make_custom_rst")
  /\ out' = make_custom_rst(mapped_routes, serialno)
  /\ serialno' = serialno + Len(mapped_routes)
  /\ built_ids' = built_ids \o [k \in 1..Len(out') |-> out'[k].ids[1]]
  /\ pc' = "returned"
  /\ UNCHANGED <<routes, mapped_routes, error, parsed, invocations>>
  /\ UNCHANGED appVars /\ Idle

\* lines 143-144
MakeHttpdomain ==
  /\ pc = "dispatch"
  /\ run_branch(Format(options)) = "httpdomain"
  /\ calls' = Append(calls, "make_httpdomain_rst")
  /\ LET r == make_httpdomain_rst(mapped_routes)
     IN  out' = r.children /\ parsed' = r.parsed
  /\ pc' = "returned"
  /\ UNCHANGED <<routes, mapped_routes, error>>
  /\ UNCHANGED <<appVars, envVars>> /\ Idle

\* lines 145-146
Unsupported ==
  /\ pc = RaisePoint
  /\ run_branch(Format(options)) = "raise"
  /\ error' = "Unsupported format"
  /\ pc' = "raised"
  /\ UNCHANGED <<calls, routes, mapped_routes, out, parsed>>
  /\ UNCHANGED <<appVars, envVars>> /\ Idle

\* the next occurrence of the directive in the same build: new arguments
\* and options, the same build environment and the same installed mapper
\* implementation
NextDirective ==
  /\ pc = "returned"
  /\ invocations < MaxInvocations
  /\ invocations' = invocations + 1
  /\ bootstrap_ok' \in BOOLEAN
  /\ UNCHANGED <<ext_ok, base_ok>>
  /\ app_routes' \in RouteLists
  /\ options' \in OptionDicts
  /\ pc' = "run" /\ calls' = <<>> /\ routes' = <<>> /\ mapped_routes' = <<>>
  /\ out' = <<>> /\ error' = "" /\ parsed' = <<>>
  /\ UNCHANGED <<serialno, built_ids>> /\ Idle

Next ==
  \/ Bootstrap
  \/ ListExtended
  \/ ListBase
  \/ Extract
  \/ MakeCustom
  \/ MakeHttpdomain
  \/ Unsupported
  \/ NextDirective

Spec == Init /\ [][Next]_vars

\* ================================================================= claims
Whitespace == {SP, TAB, NL}

\* the last call run made
LastCall == IF calls = <<>> THEN "" ELSE calls[Len(calls)]

\* get_routes has returned in the running directive
Extracted == pc \in {"dispatch", "returned"} \/ error = "Unsupported format"

\* position of the first occurrence of a call (0 if the call was not made)
FirstIndex(c) ==
  IF InList(c, calls) THEN CHOOSE k \in 1..Len(calls) :
                             calls[k] = c /\ \A j \in 1..(k - 1) : calls[j] # c
  ELSE 0

RECURSIVE Flatten(_)
Flatten(seqs) == IF seqs = <<>> THEN <<>> ELSE seqs[1] \o Flatten(Tail(seqs))

\* str.split('\n'): the lines of a text, empty ones included
RECURSIVE LinesOf(_)
LinesOf(s) ==
  IF \A k \in 1..Len(s) : s[k] # NL THEN <<s>>
  ELSE LET n == CHOOSE k \in 1..Len(s) : s[k] = NL /\ \A j \in 1..(k - 1) : s[j] # NL
       IN  <<SubSeq(s, 1, n - 1)>> \o LinesOf(SubSeq(s, n + 1, Len(s)))

\* ---- C1: make_httpdomain_rst hands the nested parser, for the i-th
\* record, only the lines http_directive produced for that record, and
\* returns the concatenation in input order of each record's nodes, each
\* record contributing exactly once.
C1_PerRecordParse ==
  (pc = "returned" /\ LastCall = "make_httpdomain_rst") =>
    LET own == [k \in 1..Len(mapped_routes) |->
                  http_directive(mapped_routes[k].method,
                                 mapped_routes[k].pattern,
                                 mapped_routes[k].docs)]
    IN  /\ parsed = own
        /\ out = Flatten([k \in 1..Len(own) |-> nested_parse(own[k], <<>>)])

\* ---- C2 as stated: trim is idempotent for every text, trim(trim(x)) =
\* trim(x).
C2_Idempotent == applied >= 2 => res = prev

\* the first line of a text holds a character that is not whitespace
FirstLineNonBlank(x) ==
  /\ x # None
  /\ \E i \in 1..Len(x) :
       /\ x[i] \notin Whitespace
       /\ \A j \in 1..(i - 1) : x[j] # NL

AllBlank(x) == x = None \/ \A i \in 1..Len(x) : x[i] \in Whitespace

\* ---- C2 amended: trim(trim(x)) = trim(x) for every text x whose first
\* line is not blank, and for the absent, empty and all-blank texts.
C2_IdempotentFirstLine ==
  (applied >= 2 /\ (FirstLineNonBlank(docstring) \/ AllBlank(docstring)))
    => res = prev

\* a text with a non-blank first line and indented later lines was trimmed
\* twice, and the first trim changed it
C2_Witness ==
  /\ applied = 2
  /\ FirstLineNonBlank(docstring)
  /\ \E i \in 1..(Len(docstring) - 2) :
       docstring[i] = NL /\ docstring[i + 1] \in {SP, TAB}
                         /\ docstring[i + 2] = "a"
  /\ prev # docstring
  /\ res = prev

\* ---- C3: get_routes returns one record per tuple of the route data of
\* the listed routes, in mapper order and tuple order, with docs trimmed,
\* minus the tuples whose view is in the undocumented list; no record has a
\* view in that list, the tuples of one route give records sharing its name
\* and pattern, and without an undocumented list nothing is dropped.
C3_Extraction ==
  Extracted =>
    LET tuples == Flatten([k \in 1..Len(routes) |-> get_route_data(routes[k])])
        absent == "undoc-endpoints" \notin DOMAIN options
        words == IF absent THEN <<>> ELSE split(options["undoc-endpoints"])
        kept == SelectSeq(tuples, LAMBDA t : ~InList(t[3], words))
    IN  /\ mapped_routes =
             [k \in 1..Len(kept) |->
                Record(kept[k][1], kept[k][2], kept[k][3], kept[k][4],
                       trim(kept[k][5]))]
        /\ \A k \in 1..Len(mapped_routes) : ~InList(mapped_routes[k].view, words)
        /\ absent => Len(mapped_routes) = Len(tuples)
        /\ \A r \in 1..Len(routes) :
             Cardinality({k \in 1..Len(mapped_routes) :
                            /\ mapped_routes[k].name = routes[r].name
                            /\ mapped_routes[k].pattern = routes[r].pattern})
               >= Cardinality({v \in 1..Len(routes[r].views) :
                                 ~InList(routes[r].views[v].view, words)})

\* get_routes dropped an undocumented view of a route and kept another view
\* of the same route
C3_Witness ==
  /\ pc = "dispatch"
  /\ "undoc-endpoints" \in DOMAIN options
  /\ \E r \in 1..Len(routes) :
       /\ \E v \in 1..Len(routes[r].views) :
            InList(routes[r].views[v].view, split(options["undoc-endpoints"]))
       /\ \E k \in 1..Len(mapped_routes) :
            mapped_routes[k].name = routes[r].name

\* ---- C4: over the directive occurrences of one build, every section made
\* by make_custom_rst has the id "route-N" of the next value N of the
\* environment's 'route' counter, the counter only grows, and no two
\* sections have the same id.
C4_UniqueIds ==
  /\ serialno = Len(built_ids)
  /\ \A k \in 1..Len(built_ids) : built_ids[k] = route_id(k - 1)
  /\ \A i, j \in 1..Len(built_ids) : i # j => built_ids[i] # built_ids[j]
  /\ (pc = "returned" /\ LastCall = "make_custom_rst") =>
       \A k \in 1..Len(out) :
         /\ Len(out[k].ids) = 1
         /\ out[k].ids[1] = built_ids[Len(built_ids) - Len(out) + k]

\* a second occurrence of the directive built sections after a first one
\* had built several
C4_Witness ==
  /\ invocations = 2
  /\ pc = "returned"
  /\ LastCall = "make_custom_rst"
  /\ Len(out) >= 2
  /\ Len(built_ids) >= Len(out) + 2

\* the format option is absent or 'custom'
FormatAbsentOrCustom ==
  "format" \notin DOMAIN options \/ options["format"] = "custom"

FormatHttpdomain ==
  "format" \in DOMAIN options /\ options["format"] = "httpdomain"

\* ---- C5: with format absent or 'custom' only make_custom_rst runs, with
\* 'httpdomain' only make_httpdomain_rst runs, and with any other format
\* run raises, returns no nodes and calls neither renderer.
C5_Dispatch ==
  /\ InList("make_custom_rst", calls) => FormatAbsentOrCustom
  /\ InList("make_httpdomain_rst", calls) => FormatHttpdomain
  /\ pc = "returned" =>
       \/ FormatAbsentOrCustom /\ LastCall = "make_custom_rst"
       \/ FormatHttpdomain /\ LastCall = "make_httpdomain_rst"
  /\ (~FormatAbsentOrCustom /\ ~FormatHttpdomain) =>
       /\ pc # "returned"
       /\ out = <<>>
       /\ ~InList("make_custom_rst", calls)
       /\ ~InList("make_httpdomain_rst", calls)
       /\ (bootstrap_ok /\ (ext_ok \/ base_ok) /\ pc = "raised")
            => error = "Unsupported format"

\* run raised on an unsupported format after extracting records
C5_Witness ==
  /\ pc = "raised"
  /\ error = "Unsupported format"
  /\ options["format"] = "html"
  /\ Len(mapped_routes) >= 2

\* ---- C6: make_custom_rst returns one section per record, in input order,
\* titled with the record's pattern, holding one table with the rows
\* Module, Request Method, Route Name, then one fragment block if docs is
\* not empty and none if it is.
C6_Sections ==
  (pc = "returned" /\ LastCall = "make_custom_rst") =>
    /\ Len(out) = Len(mapped_routes)
    /\ \A k \in 1..Len(out) :
         LET rec == mapped_routes[k]
             kids == out[k].children
         IN  /\ out[k].tag = "section"
             /\ kids[1].tag = "title" /\ kids[1].text = rec.pattern
             /\ Cardinality({c \in 1..Len(kids) : kids[c].tag = "table"}) = 1
             /\ kids[2].tag = "table"
             /\ kids[2].rows = << [label |-> "Module", value |-> rec.view],
                                  [label |-> "Request Method", value |-> rec.method],
                                  [label |-> "Route Name", value |-> rec.name] >>
             /\ Len(kids) = IF rec.docs # <<>> THEN 3 ELSE 2
             /\ rec.docs # <<>> => kids[3].tag = "paragraph"

\* sections were built for a record with a description, for one without,
\* and for two records of the same pattern
C6_Witness ==
  /\ pc = "returned"
  /\ LastCall = "make_custom_rst"
  /\ \E a, b, c \in 1..Len(out) :
       /\ a < b
       /\ mapped_routes[a].pattern = mapped_routes[b].pattern
       /\ Len(out[a].children) = 3
       /\ Len(out[c].children) = 2

\* ---- C7: when the extended listing fails, get_routes calls the base
\* listing and returns the records of the base listing, and the failure is
\* not raised; the base listing is called only after the extended call has
\* failed; a failure of the base listing is raised.
C7_Fallback ==
  /\ InList("get_routes()", calls) =>
       /\ ~ext_ok
       /\ FirstIndex("get_routes(include_static=True)") > 0
       /\ FirstIndex("get_routes(include_static=True)") < FirstIndex("get_routes()")
  /\ (bootstrap_ok /\ ~ext_ok /\ pc \notin {"run", "listing", "fallback"}) =>
       /\ InList("get_routes()", calls)
       /\ base_ok => error # "get_routes"
       /\ ~base_ok => pc = "raised" /\ error = "get_routes"
  /\ (Extracted /\ ~ext_ok) =>
       /\ routes = mapper_get_routes(app_routes, FALSE)
       /\ mapped_routes = map_routes(routes, Undocumented(options))

\* the extended listing failed and run returned the sections of the base
\* listing of an application that has a static route
C7_Witness ==
  /\ pc = "returned"
  /\ ~ext_ok
  /\ Len(out) >= 1
  /\ Len(routes) < Len(app_routes)

\* a document node without the diagnostic source tags
RECURSIVE Content(_)
Content(node) ==
  [tag |-> node.tag, text |-> node.text,
   children |-> [k \in 1..Len(node.children) |-> Content(node.children[k])]]

\* ---- C8: rst2node returns nothing for an empty text, the node itself
\* when the parse gives one top-level node, one paragraph holding all the
\* nodes in order when it gives several, and the label does not change the
\* content of what is returned.
C8_Fragment ==
  frag_done =>
    LET empty == data = None \/ data = <<>>
        top == Parse(data, <<"<">> \o doc_name \o <<">">>)
    IN  /\ empty => frag = NoNode
        /\ (~empty /\ Len(top) = 1) => frag = top[1]
        /\ (~empty /\ Len(top) > 1) =>
             /\ frag.tag = "paragraph"
             /\ frag.text = <<>>
             /\ frag.children = top
        /\ \A l \in Labels : Content(rst2node(l, data)) = Content(frag)

\* a text of two blocks was wrapped in one paragraph
C8_Witness ==
  /\ frag_done
  /\ frag.tag = "paragraph"
  /\ Len(frag.children) = 2
  /\ frag.children[1].text # frag.children[2].text

\* ---- C9: the result of trim has no blank first or last line, none of its
\* lines ends in whitespace, and the trim of an absent, empty or all-blank
\* text is the empty text.
C9_NoBlankEnds ==
  applied >= 1 =>
    LET input == IF applied = 1 THEN docstring ELSE prev
        lines == LinesOf(res)
    IN  /\ res # <<>> =>
             /\ \E i \in 1..Len(lines[1]) : lines[1][i] \notin Whitespace
             /\ \E i \in 1..Len(lines[Len(lines)]) :
                  lines[Len(lines)][i] \notin Whitespace
        /\ \A k \in 1..Len(lines) :
             lines[k] = <<>> \/ lines[k][Len(lines[k])] \notin Whitespace
        /\ AllBlank(input) => res = <<>>

\* a text with a blank first line and whitespace at its end was trimmed to
\* a text of two lines
C9_Witness ==
  /\ applied = 1
  /\ docstring # None
  /\ Len(docstring) >= 2
  /\ docstring[1] = NL
  /\ docstring[Len(docstring)] \in {SP, TAB}
  /\ Len(LinesOf(res)) = 2

\* ---- C10: the unsupported-format error is raised only after the
\* application was bootstrapped and its routes listed; if bootstrap fails,
\* the bootstrap failure is raised and the format error is not.
C10_RaiseAfterExtraction ==
  /\ error = "Unsupported format" =>
       /\ bootstrap_ok
       /\ InList("bootstrap", calls)
       /\ InList("get_routes(include_static=True)", calls)
       /\ ext_ok \/ (base_ok /\ InList("get_routes()", calls))
       /\ mapped_routes = map_routes(routes, Undocumented(options))
  /\ (~bootstrap_ok /\ pc = "raised") => error = "bootstrap"
  /\ ~bootstrap_ok => error # "Unsupported format"

\* the format error was raised once the routes had been listed by the
\* fallback and records extracted
C10_Witness ==
  /\ error = "Unsupported format"
  /\ LastCall = "get_routes()"
  /\ Len(mapped_routes) >= 1

====
